---- MODULE Spec2Model ----
(***************************************************************************)
(* Model of notebooks/llmu/Fine_Tuning_for_Rerank.ipynb: the CaseHOLD      *)
(* record shaping loop, the train/validation/test split, the two           *)
(* evaluation passes over the test slice through co.rerank, and the        *)
(* JSON-lines serializer of the training and validation slices.            *)
(*                                                                         *)
(* Representation.  A text is a sequence of characters, each character a   *)
(* one-character string (the non-ASCII character U+2019 is the token       *)
(* RSQUO).  Python's None is the reserved sequence None, whose only        *)
(* element is not a character.  A DataFrame is a sequence of rows, each    *)
(* row a record carrying its pandas index label idx and its columns.  A    *)
(* file is the flat sequence of the characters written to it.              *)
(***************************************************************************)
EXTENDS Integers, Sequences, FiniteSets, TLC

VARIABLES
    pc,                \* the notebook cell (or step inside a cell) that runs next
    iterable_dataset,  \* the stream of raw examples of the corpus
    num_examples,      \* size of the data subset taken from the stream
    train_num,         \* split counts
    valid_num,
    test_num,
    d,                 \* the Python list filled by the shaping loop
    df,                \* pd.DataFrame(d)
    df_train,          \* the three slices (copies)
    df_valid,
    df_test,           \* [rows, cols]: the test slice and its prediction columns
    files,             \* the file system: path -> characters of the file
    pass,              \* the df_test.apply under way: [active, model, column, sent, acc]
    calls,             \* the ranking service's log: every request received, in
                       \* order, with its answer: [request, status, results]
    printed,           \* what the cells have printed: a sequence of [what, num, den]
    error,             \* the exception that stopped the notebook, or "none"
    preview,           \* the lines read back by the preview cell
    lastCall           \* the last serializer call: [file_name, frame, existed]

vars == <<pc, iterable_dataset, num_examples, train_num, valid_num, test_num,
          d, df, df_train, df_valid, df_test, files, pass, calls,
          printed, error, preview, lastCall>>

----------------------------------------------------------------------------
(* Characters and texts *)

QUOTE == "\""
BSL == "\\"
NL == "\n"
RSQUO == "U+2019"

\* Python's None
None == <<"<None>">>

\* The characters the texts of the model are made of.
Alphabet == {"a", "n", QUOTE, BSL, NL, RSQUO}

RECURSIVE Concat(_)
\* The concatenation of a sequence of sequences.
Concat(ss) == IF ss = <<>> THEN <<>> ELSE Head(ss) \o Concat(Tail(ss))

RECURSIVE Join(_, _)
\* sep.join(ss)
Join(ss, sep) ==
    IF ss = <<>> THEN <<>>
    ELSE IF Len(ss) = 1 THEN ss[1]
    ELSE ss[1] \o sep \o Join(Tail(ss), sep)

Map(f(_), s) == [i \in 1..Len(s) |-> f(s[i])]

----------------------------------------------------------------------------
(* json.dumps, as the serializer uses it (default arguments: ensure_ascii, *)
(* separators ", " and ": ") *)

\* The escape of one character inside a JSON string.
EscapeChar(c) ==
    CASE c = QUOTE -> <<BSL, QUOTE>>
      [] c = BSL   -> <<BSL, BSL>>
      [] c = NL    -> <<BSL, "n">>
      [] c = RSQUO -> <<BSL, "u", "2", "0", "1", "9">>
      [] OTHER     -> <<c>>

\* json.dumps of a str, or of None
DumpsText(t) ==
    IF t = None THEN <<"n", "u", "l", "l">>
    ELSE <<QUOTE>> \o Concat(Map(EscapeChar, t)) \o <<QUOTE>>

\* json.dumps of a list of str/None
DumpsList(l) == <<"[">> \o Join(Map(DumpsText, l), <<",", " ">>) \o <<"]">>

KeyQuery == <<"q", "u", "e", "r", "y">>
KeyRelevant == <<"r", "e", "l", "e", "v", "a", "n", "t", "_",
                 "p", "a", "s", "s", "a", "g", "e", "s">>
KeyNegatives == <<"h", "a", "r", "d", "_",
                  "n", "e", "g", "a", "t", "i", "v", "e", "s">>

\* json.dumps of the dict create_rerank_ft_data returns (insertion order)
Dumps(fd) ==
    <<"{">>
    \o DumpsText(KeyQuery) \o <<":", " ">> \o DumpsText(fd.query) \o <<",", " ">>
    \o DumpsText(KeyRelevant) \o <<":", " ">> \o DumpsList(fd.relevant_passages)
    \o <<",", " ">>
    \o DumpsText(KeyNegatives) \o <<":", " ">> \o DumpsList(fd.hard_negatives)
    \o <<"}">>

----------------------------------------------------------------------------
(* json.loads, as jsonlines applies it to each line.  A parse result is     *)
(* [ok, val, next]; a value is [str |-> text], [null |-> TRUE],             *)
(* [list |-> values] or [obj |-> sequence of <<key, value>>].               *)

Fail == [ok |-> FALSE]

RECURSIVE SkipWs(_, _)
SkipWs(s, i) == IF i <= Len(s) /\ s[i] = " " THEN SkipWs(s, i + 1) ELSE i

\* The character a \uXXXX escape stands for (the model's only one is U+2019).
Unescape4(s, i) ==
    IF i + 3 <= Len(s) /\ SubSeq(s, i, i + 3) = <<"2", "0", "1", "9">>
    THEN <<RSQUO>> ELSE <<>>

RECURSIVE ScanString(_, _, _)
\* The body of a string from position i on, up to its closing quote.
ScanString(s, i, acc) ==
    IF i > Len(s) THEN Fail
    ELSE IF s[i] = QUOTE THEN [ok |-> TRUE, val |-> [str |-> acc], next |-> i + 1]
    ELSE IF s[i] = NL THEN Fail     \* a raw control character
    ELSE IF s[i] = BSL THEN
        IF i + 1 > Len(s) THEN Fail
        ELSE IF s[i + 1] \in {QUOTE, BSL} THEN ScanString(s, i + 2, Append(acc, s[i + 1]))
        ELSE IF s[i + 1] = "n" THEN ScanString(s, i + 2, Append(acc, NL))
        ELSE IF s[i + 1] = "u" /\ Unescape4(s, i + 2) # <<>>
             THEN ScanString(s, i + 6, acc \o Unescape4(s, i + 2))
        ELSE Fail
    ELSE ScanString(s, i + 1, Append(acc, s[i]))

ParseString(s, i) ==
    IF i <= Len(s) /\ s[i] = QUOTE THEN ScanString(s, i + 1, <<>>) ELSE Fail

\* A string or null.
ParseScalar(s, i) ==
    IF i <= Len(s) /\ s[i] = QUOTE THEN ParseString(s, i)
    ELSE IF i + 3 <= Len(s) /\ SubSeq(s, i, i + 3) = <<"n", "u", "l", "l">>
         THEN [ok |-> TRUE, val |-> [null |-> TRUE], next |-> i + 4]
    ELSE Fail

RECURSIVE ParseItems(_, _, _)
\* The items of an array after its first one: ", item" repeated, then "]".
ParseItems(s, i, acc) ==
    LET j == SkipWs(s, i) IN
    IF j > Len(s) THEN Fail
    ELSE IF s[j] = "]" THEN [ok |-> TRUE, val |-> [list |-> acc], next |-> j + 1]
    ELSE IF s[j] = "," THEN
        LET r == ParseScalar(s, SkipWs(s, j + 1)) IN
        IF r.ok THEN ParseItems(s, r.next, Append(acc, r.val)) ELSE Fail
    ELSE Fail

ParseArray(s, i) ==
    LET j == SkipWs(s, i + 1) IN
    IF j > Len(s) THEN Fail
    ELSE IF s[j] = "]" THEN [ok |-> TRUE, val |-> [list |-> <<>>], next |-> j + 1]
    ELSE LET r == ParseScalar(s, j) IN
         IF r.ok THEN ParseItems(s, r.next, <<r.val>>) ELSE Fail

\* A value of the grammar the files use: string, null, or array of those.
ParseValue(s, i) ==
    IF i <= Len(s) /\ s[i] = "[" THEN ParseArray(s, i) ELSE ParseScalar(s, i)

\* One "key": value member at position i.
ParseMember(s, i) ==
    LET k == ParseString(s, i) IN
    IF ~k.ok THEN Fail
    ELSE LET c == SkipWs(s, k.next) IN
         IF c > Len(s) \/ s[c] # ":" THEN Fail
         ELSE LET v == ParseValue(s, SkipWs(s, c + 1)) IN
              IF v.ok THEN [ok |-> TRUE, val |-> <<k.val.str, v.val>>, next |-> v.next]
              ELSE Fail

RECURSIVE ParseMembers(_, _, _)
ParseMembers(s, i, acc) ==
    LET j == SkipWs(s, i) IN
    IF j > Len(s) THEN Fail
    ELSE IF s[j] = "}" THEN [ok |-> TRUE, val |-> [obj |-> acc], next |-> j + 1]
    ELSE IF s[j] = "," THEN
        LET r == ParseMember(s, SkipWs(s, j + 1)) IN
        IF r.ok THEN ParseMembers(s, r.next, Append(acc, r.val)) ELSE Fail
    ELSE Fail

ParseObject(s, i) ==
    IF i > Len(s) \/ s[i] # "{" THEN Fail
    ELSE LET j == SkipWs(s, i + 1) IN
         IF j > Len(s) THEN Fail
         ELSE IF s[j] = "}" THEN [ok |-> TRUE, val |-> [obj |-> <<>>], next |-> j + 1]
         ELSE LET r == ParseMember(s, j) IN
              IF r.ok THEN ParseMembers(s, r.next, <<r.val>>) ELSE Fail

\* json.loads(line): the whole line must be one object.
Loads(line) ==
    LET r == ParseObject(line, SkipWs(line, 1)) IN
    IF r.ok /\ SkipWs(line, r.next) = Len(line) + 1 THEN r ELSE Fail

\* The lines of a file, as iterating it yields them (without their newline):
\* line k ends before the k-th newline; characters after the last newline
\* make a last line.
Lines(content) ==
    LET nl == {i \in 1..Len(content) : content[i] = NL}
        Nth(k) == CHOOSE p \in nl : Cardinality({q \in nl : q < p}) = k - 1
        Start(k) == IF k = 1 THEN 1 ELSE Nth(k - 1) + 1
        last == IF nl = {} THEN 0 ELSE Nth(Cardinality(nl))
        n == Cardinality(nl) + (IF last < Len(content) THEN 1 ELSE 0)
    IN [k \in 1..n |->
           IF k <= Cardinality(nl) THEN SubSeq(content, Start(k), Nth(k) - 1)
           ELSE SubSeq(content, last + 1, Len(content))]

----------------------------------------------------------------------------
(* The raw examples.  A raw example is a record (the dict the dataset       *)
(* yields) with the fields citing_prompt, label and holding_0..holding_4;   *)
(* a malformed one lacks some holding_k or has a label outside 0..4.        *)

\* Labels for columns containing the 5 documents in raw dataset file
all_labels == <<"holding_0", "holding_1", "holding_2", "holding_3", "holding_4">>

\* "holding_{}".format(label), for the labels of the model (0..5)
FormatHolding(label) ==
    <<"holding_0", "holding_1", "holding_2", "holding_3", "holding_4",
      "holding_5">>[label + 1]

\* example.get(key)
Get(example, key) == IF key \in DOMAIN example THEN example[key] ELSE None

RECURSIVE Without(_, _)
\* [x for x in l if x != y]
Without(l, y) ==
    IF l = <<>> THEN <<>>
    ELSE (IF Head(l) # y THEN <<Head(l)>> ELSE <<>>) \o Without(Tail(l), y)

\* The keys of the candidates that are not the selected one.
hard_negatives_idx(selected_passage_idx) ==
    Without(all_labels, selected_passage_idx)

\* Whether the body of the shaping loop raises KeyError on this example.
ShapeRaises(example) ==
    \/ "label" \notin DOMAIN example
    \/ "citing_prompt" \notin DOMAIN example
    \/ FormatHolding(example.label) \notin DOMAIN example

\* Shape with the hard negatives picked by text instead of by key: the
\* candidates that differ from the relevant passage.
Shape_ByText(example) ==
    LET selected_passage_idx == FormatHolding(example.label)
        docs == [i \in 1..Len(all_labels) |-> Get(example, all_labels[i])]
    IN [query |-> example.citing_prompt,
        docs |-> docs,
        label |-> example.label,
        relevant_passages |-> <<example[selected_passage_idx]>>,
        hard_negatives |-> Without(docs, example[selected_passage_idx])]

\* The dict the shaping loop appends for one example.
Shape(example) ==
    LET selected_passage_idx == FormatHolding(example.label) IN
    [query |-> example.citing_prompt,
     docs |-> [i \in 1..Len(all_labels) |-> Get(example, all_labels[i])],
     label |-> example.label,
     relevant_passages |-> <<example[selected_passage_idx]>>,
     hard_negatives |->
         LET keys == hard_negatives_idx(selected_passage_idx) IN
         [i \in 1..Len(keys) |-> Get(example, keys[i])]]

Min(a, b) == IF a < b THEN a ELSE b

\* iterable_dataset.take(n): the first n examples of the stream
Take(stream, n) == SubSeq(stream, 1, Min(n, Len(stream)))

\* pd.DataFrame(l): the rows of l under the index labels 0..len(l)-1
DataFrame(l) ==
    [i \in 1..Len(l) |->
        [idx |-> i - 1, query |-> l[i].query, docs |-> l[i].docs,
         label |-> l[i].label, relevant_passages |-> l[i].relevant_passages,
         hard_negatives |-> l[i].hard_negatives]]

\* frame[lo:hi] for 0 <= lo: the rows at positions lo..hi-1 that exist
Slice(frame, lo, hi) == SubSeq(frame, Min(lo, Len(frame)) + 1, Min(hi, Len(frame)))

\* frame[lo:]
SliceFrom(frame, lo) == SubSeq(frame, Min(lo, Len(frame)) + 1, Len(frame))

NoPass == [active |-> FALSE, model |-> "", column |-> "", sent |-> 0, acc |-> <<>>]
NoCall == [file_name |-> "", frame |-> <<>>, existed |-> FALSE]
NoCols == [c \in {} |-> <<>>]

----------------------------------------------------------------------------
(* Cell ad4f4077: the shaping loop *)

\* One iteration of the loop: the next example of take(num_examples) is
\* shaped and appended, or the body raises and the cell stops there.
ShapeLoopStep ==
    /\ pc = "shape"
    /\ Len(d) < Len(Take(iterable_dataset, num_examples))
    /\ LET example == iterable_dataset[Len(d) + 1] IN
       IF ShapeRaises(example)
       THEN /\ error' = "KeyError"
            /\ pc' = "stopped"
            /\ d' = d
       ELSE /\ d' = Append(d, Shape(example))
            /\ UNCHANGED <<pc, error>>
    /\ UNCHANGED <<iterable_dataset, num_examples, train_num, valid_num,
                   test_num, df, df_train, df_valid, df_test, files, pass,
                   calls, printed, preview, lastCall>>

\* The loop is over: df = pd.DataFrame(d)
MakeDataFrame ==
    /\ pc = "shape"
    /\ Len(d) = Len(Take(iterable_dataset, num_examples))
    /\ df' = DataFrame(d)
    /\ pc' = "split"
    /\ UNCHANGED <<iterable_dataset, num_examples, train_num, valid_num,
                   test_num, d, df_train, df_valid, df_test, files, pass,
                   calls, printed, error, preview, lastCall>>

----------------------------------------------------------------------------
(* Cell ee4b9053: the train-validation-test split *)

\* The test slice taken from the end of the training slice, the validation
\* count forgotten.
TestSlice_FromTrain(frame) == SliceFrom(frame, train_num)

\* The test slice cut at test_num rows.
TestSlice_UpToTestNum(frame) ==
    Slice(frame, train_num + valid_num, train_num + valid_num + test_num)

\* df[train_num+valid_num:]
TestSlice(frame) == SliceFrom(frame, train_num + valid_num)

SplitCell ==
    /\ pc = "split"
    /\ df_train' = Slice(df, 0, train_num)
    /\ df_valid' = Slice(df, train_num, train_num + valid_num)
    /\ df_test' = [rows |-> TestSlice(df), cols |-> NoCols]
    /\ printed' = printed \o
          <<[what |-> "Size of training set:", num |-> Len(df_train'), den |-> 1],
            [what |-> "Size of validation set:", num |-> Len(df_valid'), den |-> 1],
            [what |-> "Size of test set:", num |-> Len(df_test'.rows), den |-> 1]>>
    /\ pc' = "baseline"
    /\ UNCHANGED <<iterable_dataset, num_examples, train_num, valid_num,
                   test_num, d, df, files, pass, calls, error, preview,
                   lastCall>>

----------------------------------------------------------------------------
(* get_prediction and the two evaluation cells c038e0c0 and cfa4c1dc *)

BaselineModel == "rerank-english-v3.0"
FtModel == "9f22e08a-f1ab-4cee-9524-607dcb08c954-ft"

BaselineColumn == "baseline_prediction"

\* The second cell storing its predictions under the first cell's name.
FtColumn_Baseline == "baseline_prediction"

FtColumn == "ft_prediction"

\* The request with the documents taken from the two passage lists, the
\* relevant passage first.
RerankRequest_Regrouped(item, model) ==
    [model |-> model, query |-> item.query,
     documents |-> item.relevant_passages \o item.hard_negatives, top_n |-> 1]

\* The arguments get_prediction gives co.rerank for one row of df_test.
RerankRequest(item, model) ==
    [model |-> model, query |-> item.query, documents |-> item.docs, top_n |-> 1]

\* prediction = response.results[0].index
Prediction(results) == results[1].index

\* The model identifier, the column and the printed label of each cell, and
\* the cell that follows it.
CellModel(cell) == IF cell = "baseline" THEN BaselineModel ELSE FtModel
CellColumn(cell) == IF cell = "baseline" THEN BaselineColumn ELSE FtColumn
CellLabel(cell) ==
    IF cell = "baseline" THEN "Baseline accuracy:" ELSE "Fine-tune accuracy:"
CellNext(cell) == IF cell = "baseline" THEN "serialize_train" ELSE "done"

\* frame[column] = values
SetColumn(frame, column, values) ==
    [rows |-> frame.rows,
     cols |-> [c \in DOMAIN frame.cols \cup {column} |->
                  IF c = column THEN values ELSE frame.cols[c]]]

\* The accuracy with the comparison turned round: the rows whose prediction
\* differs from the label are counted.
Accuracy_CountsMisses(frame, column) ==
    [num |-> Cardinality({k \in 1..Len(frame.rows) :
                             frame.cols[column][k] # frame.rows[k].label}),
     den |-> Len(frame.rows)]

\* sum(frame[column] == frame["label"]) / len(frame), as numerator and
\* denominator of the division
Accuracy(frame, column) ==
    [num |-> Cardinality({k \in 1..Len(frame.rows) :
                             frame.cols[column][k] = frame.rows[k].label}),
     den |-> Len(frame.rows)]

\* Requests dispatched without waiting for the answers.
ReadyToCall_NoWait(p) == TRUE

\* co.rerank blocks: apply calls get_prediction for the next row only when
\* the call for the row before has returned.
ReadyToCall(p) == p.sent = Len(p.acc)

\* The positions in the service's log of the requests not yet answered.
Outstanding == {k \in 1..Len(calls) : calls[k].status = "pending"}

\* A failure after which the predictions obtained so far are stored.
FailureOutcome_Partial(p, frame, exc) ==
    [pc |-> "stopped", pass |-> NoPass,
     df_test |-> [rows |-> frame.rows,
                  cols |-> [c \in DOMAIN frame.cols \cup {p.column} |->
                               IF c = p.column THEN p.acc ELSE frame.cols[c]]],
     error |-> exc]

\* What an exception raised inside get_prediction leaves behind: it
\* propagates out of apply, so the assignment of the column and the print
\* that follow never run.
FailureOutcome(p, frame, exc) ==
    [pc |-> "stopped", pass |-> NoPass, df_test |-> frame, error |-> exc]

\* The cell starts: df_test.apply(get_prediction, axis=1) begins.
StartApply ==
    /\ pc \in {"baseline", "finetuned"}
    /\ ~pass.active
    /\ pass' = [active |-> TRUE, model |-> CellModel(pc),
                column |-> CellColumn(pc), sent |-> 0, acc |-> <<>>]
    /\ UNCHANGED <<pc, iterable_dataset, num_examples, train_num, valid_num,
                   test_num, d, df, df_train, df_valid, df_test, files,
                   calls, printed, error, preview, lastCall>>

\* get_prediction sends the ranking request of the next row.
CallRerank ==
    /\ pass.active
    /\ pass.sent < Len(df_test.rows)
    /\ ReadyToCall(pass)
    /\ calls' = Append(calls,
          [request |-> RerankRequest(df_test.rows[pass.sent + 1], pass.model),
           status |-> "pending", results |-> <<>>])
    /\ pass' = [pass EXCEPT !.sent = @ + 1]
    /\ UNCHANGED <<pc, iterable_dataset, num_examples, train_num, valid_num,
                   test_num, d, df, df_train, df_valid, df_test, files,
                   printed, error, preview, lastCall>>

\* The service answers the oldest outstanding request with the top result
\* at index j, and get_prediction returns it.
RerankReturns(j) ==
    /\ pass.active
    /\ Outstanding # {}
    /\ LET k == CHOOSE x \in Outstanding : \A y \in Outstanding : x <= y
           results == <<[index |-> j]>>
       IN /\ j \in 0..(Len(calls[k].request.documents) - 1)
          /\ calls' = [calls EXCEPT ![k].status = "ok", ![k].results = results]
          /\ pass' = [pass EXCEPT !.acc = Append(@, Prediction(results))]
    /\ UNCHANGED <<pc, iterable_dataset, num_examples, train_num, valid_num,
                   test_num, d, df, df_train, df_valid, df_test, files,
                   printed, error, preview, lastCall>>

\* The call fails: co.rerank raises (network, API error), or the response
\* holds no result and results[0] raises IndexError.
RerankFails(exc) ==
    /\ pass.active
    /\ Outstanding # {}
    /\ LET k == CHOOSE x \in Outstanding : \A y \in Outstanding : x <= y
           out == FailureOutcome(pass, df_test, exc)
       IN /\ calls' = [calls EXCEPT ![k].status = "failed"]
          /\ pc' = out.pc
          /\ pass' = out.pass
          /\ df_test' = out.df_test
          /\ error' = out.error
    /\ UNCHANGED <<iterable_dataset, num_examples, train_num, valid_num,
                   test_num, d, df, df_train, df_valid, files, printed,
                   preview, lastCall>>

\* apply is over: the column is assigned and the accuracy printed.
EndApply ==
    /\ pass.active
    /\ Len(df_test.rows) > 0
    /\ Len(pass.acc) = Len(df_test.rows)
    /\ df_test' = SetColumn(df_test, pass.column, pass.acc)
    /\ printed' = Append(printed,
          [what |-> CellLabel(pc)] @@ Accuracy(df_test', pass.column))
    /\ pass' = NoPass
    /\ pc' = CellNext(pc)
    /\ UNCHANGED <<iterable_dataset, num_examples, train_num, valid_num,
                   test_num, d, df, df_train, df_valid, files, calls, error,
                   preview, lastCall>>

\* An evaluation cell that goes through on an empty test slice: the empty
\* column is stored and an accuracy of 0 over 0 rows is printed.
EmptyApply_Reports ==
    /\ pass.active
    /\ Len(df_test.rows) = 0
    /\ df_test' = SetColumn(df_test, pass.column, <<>>)
    /\ printed' = Append(printed, [what |-> CellLabel(pc), num |-> 0, den |-> 0])
    /\ pass' = NoPass
    /\ pc' = CellNext(pc)
    /\ UNCHANGED <<iterable_dataset, num_examples, train_num, valid_num,
                   test_num, d, df, df_train, df_valid, files, calls, error,
                   preview, lastCall>>

\* The test slice is empty: apply calls nothing, and the cell ends in an
\* error, in the assignment of the column (pandas refuses the empty frame
\* apply returns) or in the division by len(df_test) = 0, depending on the
\* pandas version.
EmptyApply ==
    /\ pass.active
    /\ Len(df_test.rows) = 0
    /\ \E exc \in {"ValueError", "ZeroDivisionError"} : error' = exc
    /\ pass' = NoPass
    /\ pc' = "stopped"
    /\ UNCHANGED <<iterable_dataset, num_examples, train_num, valid_num,
                   test_num, d, df, df_train, df_valid, df_test, files,
                   calls, printed, preview, lastCall>>

----------------------------------------------------------------------------
(* Cell 203e0995: the serializer *)

\* create_rerank_ft_data with the two passage lists exchanged.
create_rerank_ft_data_Swapped(query, relevant_passages, hard_negatives) ==
    [query |-> query, relevant_passages |-> hard_negatives,
     hard_negatives |-> relevant_passages]

\* Arranges the data to suit Cohere's format
create_rerank_ft_data(query, relevant_passages, hard_negatives) ==
    [query |-> query, relevant_passages |-> relevant_passages,
     hard_negatives |-> hard_negatives]

\* f'{file_name}.jsonl'
Path(file_name) ==
    CASE file_name = "casehold_train" -> "casehold_train.jsonl"
      [] file_name = "casehold_valid" -> "casehold_valid.jsonl"

\* What the loop over frame.iterrows() writes: one line per row.
JsonlText(frame) ==
    Concat([i \in 1..Len(frame) |->
        Dumps(create_rerank_ft_data(frame[i].query, frame[i].relevant_passages,
                                    frame[i].hard_negatives)) \o <<NL>>])

\* The serializer without the os.path.isfile test: open(path, 'w+')
\* truncates the file and the rows are written again.
create_jsonl_from_list_Overwrite(fs, file_name, frame) ==
    LET path == Path(file_name) IN
    [f \in DOMAIN fs \cup {path} |->
        IF f = path THEN JsonlText(frame) ELSE fs[f]]

\* Creates jsonl file if does not already exist: the file system after
\* create_jsonl_from_list(file_name, frame)
create_jsonl_from_list(fs, file_name, frame) ==
    LET path == Path(file_name) IN
    IF path \in DOMAIN fs THEN fs
    ELSE [f \in DOMAIN fs \cup {path} |->
             IF f = path THEN JsonlText(frame) ELSE fs[f]]

\* One call of the serializer.
Serialize(file_name, frame) ==
    /\ files' = create_jsonl_from_list(files, file_name, frame)
    /\ lastCall' = [file_name |-> file_name, frame |-> frame,
                    existed |-> Path(file_name) \in DOMAIN files]

\* create_jsonl_from_list("casehold_train", df_train)
SerializeTrain ==
    /\ pc = "serialize_train"
    /\ Serialize("casehold_train", df_train)
    /\ pc' = "serialize_valid"
    /\ UNCHANGED <<iterable_dataset, num_examples, train_num, valid_num,
                   test_num, d, df, df_train, df_valid, df_test, pass, calls,
                   printed, error, preview>>

\* create_jsonl_from_list("casehold_valid", df_valid)
SerializeValid ==
    /\ pc = "serialize_valid"
    /\ Serialize("casehold_valid", df_valid)
    /\ pc' = "preview"
    /\ UNCHANGED <<iterable_dataset, num_examples, train_num, valid_num,
                   test_num, d, df, df_train, df_valid, df_test, pass, calls,
                   printed, error, preview>>

----------------------------------------------------------------------------
(* Cell 104016d2: the first two lines of the training file, read back *)

\* The lines jsonlines yields from a file's content, each parsed.
ReadJsonl(content) == Map(Loads, Lines(content))

\* [line for _, line in zip(range(n), f)]
FirstLines(ls, n) == SubSeq(ls, 1, Min(n, Len(ls)))

PreviewCell ==
    /\ pc = "preview"
    /\ LET ls == FirstLines(ReadJsonl(files["casehold_train.jsonl"]), 2) IN
       IF \E i \in 1..Len(ls) : ~ls[i].ok
       THEN /\ error' = "InvalidLineError"
            /\ pc' = "stopped"
            /\ preview' = preview
       ELSE /\ preview' = [i \in 1..Len(ls) |-> ls[i].val]
            /\ pc' = "finetuned"
            /\ error' = error
    /\ UNCHANGED <<iterable_dataset, num_examples, train_num, valid_num,
                   test_num, d, df, df_train, df_valid, df_test, files, pass,
                   calls, printed, lastCall>>

----------------------------------------------------------------------------
(* The notebook run from its first data cell *)

\* Bounds of the model: the longest stream, the largest split count.
MaxStream == 2
MaxCount == 2

\* The indices the ranking service of the model puts first: those of the
\* labelled candidates of the raw examples below, which leaves each of them
\* room to be right and to be wrong.
TopIndices == {0, 1, 4}

\* Sequences over S of length at most n.
SeqsUpTo(S, n) == UNION {[1..k -> S] : k \in 0..n}

\* The raw examples the streams of the model are made of: one with five
\* different candidates, one with equal candidates and an empty one, one
\* that lacks a candidate that is not the labelled one, and one whose label
\* names no candidate.
Ex1 == [citing_prompt |-> <<"a", RSQUO>>, label |-> 0,
        holding_0 |-> <<QUOTE>>, holding_1 |-> <<BSL, "n">>,
        holding_2 |-> <<NL>>, holding_3 |-> <<RSQUO>>, holding_4 |-> <<"a">>]
Ex2 == [citing_prompt |-> <<"n", QUOTE>>, label |-> 4,
        holding_0 |-> <<"a">>, holding_1 |-> <<>>, holding_2 |-> <<"n">>,
        holding_3 |-> <<"a", BSL>>, holding_4 |-> <<"a">>]
Ex3 == [citing_prompt |-> <<"a">>, label |-> 1,
        holding_0 |-> <<"n">>, holding_1 |-> <<"a">>,
        holding_3 |-> <<"a">>, holding_4 |-> <<NL, "a">>]
Ex4 == [citing_prompt |-> <<"a">>, label |-> 5,
        holding_0 |-> <<"a">>, holding_1 |-> <<"n">>, holding_2 |-> <<"a">>,
        holding_3 |-> <<"n">>, holding_4 |-> <<"a">>]
RawPool == {Ex1, Ex2, Ex3, Ex4}

NoFiles == [f \in {} |-> <<>>]

\* The files an earlier run of the notebook on other data has left.
StaleFiles ==
    create_jsonl_from_list(
        create_jsonl_from_list(NoFiles, "casehold_train", DataFrame(<<Shape(Ex2)>>)),
        "casehold_valid", <<>>)

Init ==
    /\ pc = "shape"
    /\ iterable_dataset \in SeqsUpTo(RawPool, MaxStream)
    /\ num_examples \in {MaxStream - 1, MaxStream}
    /\ train_num \in 0..MaxCount
    /\ valid_num \in 0..MaxCount
    /\ test_num \in 0..MaxCount
    /\ d = <<>>
    /\ df = <<>>
    /\ df_train = <<>>
    /\ df_valid = <<>>
    /\ df_test = [rows |-> <<>>, cols |-> NoCols]
    /\ files \in {NoFiles, StaleFiles}
    /\ pass = NoPass
    /\ calls = <<>>
    /\ printed = <<>>
    /\ error = "none"
    /\ preview = <<>>
    /\ lastCall = NoCall

Next ==
    \/ ShapeLoopStep
    \/ MakeDataFrame
    \/ SplitCell
    \/ StartApply
    \/ CallRerank
    \/ \E j \in TopIndices : RerankReturns(j)
    \/ \E exc \in {"ApiError", "IndexError"} : RerankFails(exc)
    \/ EndApply
    \/ EmptyApply
    \/ SerializeTrain
    \/ SerializeValid
    \/ PreviewCell

Spec == Init /\ [][Next]_vars

----------------------------------------------------------------------------
(* The shaping loop on one raw example drawn from every combination of      *)
(* label, present candidates and candidate texts                            *)

HoldingTexts == {<<"a">>, <<"n">>, <<QUOTE>>, <<NL>>, <<>>}

\* The raw examples with the label l, the candidate fields keys and the
\* candidate texts h.
RawExample(l, keys, h) ==
    [k \in {"citing_prompt", "label"} \cup keys |->
        IF k = "citing_prompt" THEN <<"a", "n">>
        ELSE IF k = "label" THEN l
        ELSE h[k]]

HoldingKeys == {all_labels[i] : i \in 1..Len(all_labels)}

RawExamples ==
    {RawExample(l, keys, h) :
        l \in 0..5, keys \in {HoldingKeys} \cup {HoldingKeys \ {k} : k \in HoldingKeys},
        h \in [HoldingKeys -> HoldingTexts]}

InitShape ==
    /\ pc = "shape"
    /\ \E example \in RawExamples : iterable_dataset = <<example>>
    /\ num_examples = 1
    /\ train_num = 0
    /\ valid_num = 0
    /\ test_num = 0
    /\ d = <<>>
    /\ df = <<>>
    /\ df_train = <<>>
    /\ df_valid = <<>>
    /\ df_test = [rows |-> <<>>, cols |-> NoCols]
    /\ files = NoFiles
    /\ pass = NoPass
    /\ calls = <<>>
    /\ printed = <<>>
    /\ error = "none"
    /\ preview = <<>>
    /\ lastCall = NoCall

NextShape ==
    \/ ShapeLoopStep
    \/ MakeDataFrame

SpecShape == InitShape /\ [][NextShape]_vars

\* A raw example with a label in 0..4 and all five candidate fields.
WellFormed(example) ==
    /\ example.label \in 0..4
    /\ HoldingKeys \subseteq DOMAIN example

\* The five candidates of a raw example, holding_0 first.
Candidates(example) == [i \in 1..5 |-> example[all_labels[i]]]

\* A sequence without its element at position i.
RemoveAt(s, i) == [j \in 1..(Len(s) - 1) |-> IF j < i THEN s[j] ELSE s[j + 1]]

\* How many times x occurs in s.
Count(s, x) == Cardinality({i \in 1..Len(s) : s[i] = x})

SameMultiset(s, t) ==
    /\ Len(s) = Len(t)
    /\ \A i \in 1..Len(s) : Count(s, s[i]) = Count(t, s[i])

\* The examples the loop has taken so far or will take.
Taken == Take(iterable_dataset, num_examples)

\* C1: every well-formed raw example (label i in 0..4, all five candidate
\* fields) is appended as a record whose relevant_passages is exactly
\* [candidate i] and whose hard_negatives are the other four candidates in
\* their original order, the two together being the multiset of the five
\* candidates, equal texts included; and once the loop is over a stream of
\* well-formed examples, every one of them has been appended.
C1_ShaperContract ==
    /\ \A k \in 1..Len(d) :
          WellFormed(Taken[k]) =>
             LET c == Candidates(Taken[k])
                 i == Taken[k].label
             IN /\ d[k].relevant_passages = <<c[i + 1]>>
                /\ Len(d[k].relevant_passages) = 1
                /\ d[k].hard_negatives = RemoveAt(c, i + 1)
                /\ Len(d[k].hard_negatives) = 4
                /\ SameMultiset(d[k].relevant_passages \o d[k].hard_negatives, c)
    /\ (pc # "shape" /\ \A k \in 1..Len(Taken) : WellFormed(Taken[k]))
          => Len(d) = Len(Taken) /\ error = "none"

\* A well-formed example whose relevant passage has the text of another
\* candidate has been shaped.
C1_Witness ==
    /\ pc = "split"
    /\ Len(d) = 1
    /\ WellFormed(Taken[1])
    /\ d[1].relevant_passages[1] \in {d[1].hard_negatives[j] : j \in 1..4}
    /\ Cardinality({d[1].docs[j] : j \in 1..5}) = 3

----------------------------------------------------------------------------
(* The split *)

\* The split cell has run (it prints the three sizes).
SplitDone == Len(printed) >= 3

\* The index labels of the rows of a frame.
Idx(frame) == {frame[i].idx : i \in 1..Len(frame)}

\* C2: for counts with train+valid+test <= N the split returns
\* train = [0,train), valid = [train,train+valid) and
\* test = [train+valid,train+valid+test): pairwise disjoint slices whose
\* concatenation is the prefix of df of length train+valid+test, the test
\* slice holding exactly test_num records.
C2_SplitterContract ==
    (SplitDone /\ train_num + valid_num + test_num <= Len(df)) =>
       /\ df_train = SubSeq(df, 1, train_num)
       /\ df_valid = SubSeq(df, train_num + 1, train_num + valid_num)
       /\ df_test.rows = SubSeq(df, train_num + valid_num + 1,
                                train_num + valid_num + test_num)
       /\ Len(df_test.rows) = test_num
       /\ Idx(df_train) \cap Idx(df_valid) = {}
       /\ Idx(df_train) \cap Idx(df_test.rows) = {}
       /\ Idx(df_valid) \cap Idx(df_test.rows) = {}
       /\ df_train \o df_valid \o df_test.rows =
             SubSeq(df, 1, train_num + valid_num + test_num)

----------------------------------------------------------------------------
(* The sample run: 420 examples split 256 / 154 / 10 *)

SampleNumExamples == 420
SampleTrainNum == 256
SampleValidNum == 154
SampleTestNum == 10

\* A stream of n well-formed examples.
SampleStream(n, offset) ==
    [k \in 1..n |-> IF (k + offset) % 2 = 0 THEN Ex1 ELSE Ex2]

InitSample ==
    /\ pc = "shape"
    /\ \E n \in {SampleNumExamples, SampleNumExamples + 5}, offset \in {0, 1} :
          iterable_dataset = SampleStream(n, offset)
    /\ num_examples = SampleNumExamples
    /\ train_num = SampleTrainNum
    /\ valid_num = SampleValidNum
    /\ test_num = SampleTestNum
    /\ d = <<>>
    /\ df = <<>>
    /\ df_train = <<>>
    /\ df_valid = <<>>
    /\ df_test = [rows |-> <<>>, cols |-> NoCols]
    /\ files = NoFiles
    /\ pass = NoPass
    /\ calls = <<>>
    /\ printed = <<>>
    /\ error = "none"
    /\ preview = <<>>
    /\ lastCall = NoCall

NextSample ==
    \/ ShapeLoopStep
    \/ MakeDataFrame
    \/ SplitCell

SpecSample == InitSample /\ [][NextSample]_vars

\* C8: with 420 loaded examples and the counts (256, 154, 10) the slices
\* have exactly 256, 154 and 10 records, the cell prints these sizes, and no
\* record (index label) belongs to two slices.
C8_SampleSplit ==
    SplitDone =>
       /\ Len(df) = 420
       /\ Len(df_train) = 256
       /\ Len(df_valid) = 154
       /\ Len(df_test.rows) = 10
       /\ printed[1].num = 256 /\ printed[2].num = 154 /\ printed[3].num = 10
       /\ Cardinality(Idx(df_train)) = 256
       /\ Cardinality(Idx(df_valid)) = 154
       /\ Cardinality(Idx(df_test.rows)) = 10
       /\ Idx(df_train) \cap Idx(df_valid) = {}
       /\ Idx(df_train) \cap Idx(df_test.rows) = {}
       /\ Idx(df_valid) \cap Idx(df_test.rows) = {}

\* The sample run has split its 420 examples.
C8_Witness ==
    /\ pc = "baseline"
    /\ SplitDone
    /\ Len(d) = 420
    /\ train_num = 256 /\ valid_num = 154 /\ test_num = 10
    /\ Len(df_test.rows) = 10

----------------------------------------------------------------------------
(* The serializer called any number of times, with any frame, on either    *)
(* file name                                                                *)

\* The longest frame handed to the serializer.
MaxFrame == 2

FileNames == {"casehold_train", "casehold_valid"}

\* The frames of at most MaxFrame rows shaped from the raw examples.
Frames ==
    {DataFrame(l) : l \in SeqsUpTo({Shape(Ex1), Shape(Ex3)}, MaxFrame)}

InitSer ==
    /\ pc = "serializer"
    /\ iterable_dataset = <<>>
    /\ num_examples = 0
    /\ train_num = 0
    /\ valid_num = 0
    /\ test_num = 0
    /\ d = <<>>
    /\ df = <<>>
    /\ df_train = <<>>
    /\ df_valid = <<>>
    /\ df_test = [rows |-> <<>>, cols |-> NoCols]
    /\ files = NoFiles
    /\ pass = NoPass
    /\ calls = <<>>
    /\ printed = <<>>
    /\ error = "none"
    /\ preview = <<>>
    /\ lastCall = NoCall

\* create_jsonl_from_list(file_name, frame)
CallSerializer(file_name, frame) ==
    /\ pc = "serializer"
    /\ Serialize(file_name, frame)
    /\ UNCHANGED <<pc, iterable_dataset, num_examples, train_num, valid_num,
                   test_num, d, df, df_train, df_valid, df_test, pass, calls,
                   printed, error, preview>>

NextSer == \E file_name \in FileNames, frame \in Frames : CallSerializer(file_name, frame)

SpecSer == InitSer /\ [][NextSer]_vars

\* C3: a serializer call that finds its destination file writes nothing and
\* leaves every file as it is, whatever frame it is given; a file is only
\* ever created, by a call that found it absent, with the lines of that
\* call's frame.  So a file holds for ever the records of the first call
\* that found it absent.
C3_SkipIfExists ==
    [][/\ \A f \in DOMAIN files : f \in DOMAIN files' /\ files'[f] = files[f]
       /\ lastCall'.existed => files' = files
       /\ \A f \in DOMAIN files' \ DOMAIN files :
             /\ f = Path(lastCall'.file_name)
             /\ ~lastCall'.existed
             /\ files'[f] = JsonlText(lastCall'.frame)]_vars

\* A call has found its file present, with other lines than those of the
\* frame it was given, and the file still holds them.
C3_Witness ==
    /\ lastCall.existed
    /\ Len(lastCall.frame) > 0
    /\ files[Path(lastCall.file_name)] # JsonlText(lastCall.frame)
    /\ Len(files[Path(lastCall.file_name)]) > 0

----------------------------------------------------------------------------
(* The notebook run on streams that carry every text of at most MaxTextLen  *)
(* characters into the training or the validation file                      *)

MaxTextLen == 2

Texts == SeqsUpTo(Alphabet, MaxTextLen)

\* A well-formed example with the text t as its query and as its first,
\* third and last candidate.
RichExample(t, l) ==
    [citing_prompt |-> t, label |-> l, holding_0 |-> t, holding_1 |-> <<"a">>,
     holding_2 |-> t, holding_3 |-> <<>>, holding_4 |-> t]

RichExamples == {RichExample(t, l) : t \in Texts, l \in {0, 1}}

\* The streams and split counts of these runs: the rich example alone in
\* the training slice, second or first of two training rows, in the
\* validation slice, and in a run whose test slice is empty.
RichRuns ==
    UNION {{[stream |-> <<r, Ex1>>, train |-> 1, valid |-> 0],
            [stream |-> <<r, Ex2, Ex1>>, train |-> 2, valid |-> 0],
            [stream |-> <<Ex2, r, Ex1>>, train |-> 2, valid |-> 0],
            [stream |-> <<Ex3, r, Ex1>>, train |-> 1, valid |-> 1],
            [stream |-> <<r>>, train |-> 1, valid |-> 0]} : r \in RichExamples}

InitRich ==
    /\ pc = "shape"
    /\ \E run \in RichRuns :
          /\ iterable_dataset = run.stream
          /\ num_examples = Len(run.stream)
          /\ train_num = run.train
          /\ valid_num = run.valid
    /\ test_num = 1
    /\ d = <<>>
    /\ df = <<>>
    /\ df_train = <<>>
    /\ df_valid = <<>>
    /\ df_test = [rows |-> <<>>, cols |-> NoCols]
    /\ files = NoFiles
    /\ pass = NoPass
    /\ calls = <<>>
    /\ printed = <<>>
    /\ error = "none"
    /\ preview = <<>>
    /\ lastCall = NoCall

SpecRich == InitRich /\ [][Next]_vars

\* The parsed form of a text or None, and of a list of them.
JText(t) == IF t = None THEN [null |-> TRUE] ELSE [str |-> t]
JList(l) == [list |-> [i \in 1..Len(l) |-> JText(l[i])]]

\* The object a row is written as: exactly the three keys, in this order.
RecordOf(row) ==
    [obj |-> <<<<KeyQuery, JText(row.query)>>,
               <<KeyRelevant, JList(row.relevant_passages)>>,
               <<KeyNegatives, JList(row.hard_negatives)>>>>]

\* The file content reads back as the rows of the frame: one line per row,
\* in order, each parsing to the row's three fields and nothing else.
ReadsBackAs(content, frame) ==
    LET ls == ReadJsonl(content) IN
    /\ Len(ls) = Len(frame)
    /\ \A k \in 1..Len(ls) : ls[k].ok /\ ls[k].val = RecordOf(frame[k])

\* C4: after a serializer call that found its file absent, the file holds
\* one line per row of the frame, in order, and line k parses to an object
\* with exactly the keys query, relevant_passages, hard_negatives holding
\* the values of row k (no label, no docs); the preview cell reads back the
\* first two records of the training slice.
C4_RoundTrip ==
    /\ (lastCall.file_name # "" /\ ~lastCall.existed) =>
          ReadsBackAs(files[Path(lastCall.file_name)], lastCall.frame)
    /\ (pc \in {"finetuned", "done"} \/ (pc = "stopped" /\ Len(printed) > 3)) =>
          /\ ReadsBackAs(files["casehold_train.jsonl"], df_train)
          /\ ReadsBackAs(files["casehold_valid.jsonl"], df_valid)
          /\ preview = [k \in 1..Min(2, Len(df_train)) |-> RecordOf(df_train[k])]

\* A two-row training slice whose second row carries a newline and a quote
\* has been written and previewed.
C4_Witness ==
    /\ pc = "finetuned"
    /\ ~lastCall.existed
    /\ Len(df_train) = 2
    /\ df_train[2].query = <<NL, QUOTE>>
    /\ Len(preview) = 2

----------------------------------------------------------------------------
(* The accuracy of every run above, and of runs with a test slice of ten    *)
(* examples taken up where the second apply has just received its last      *)
(* answer                                                                   *)

TenExamples == 10

\* The state of the notebook run on stream with the counts (0, 0, len),
\* when the baseline cell has stored the predictions base and the apply of
\* the fine-tuned cell has collected the predictions ft.
AtEndOfSecondApply(stream, base, ft) ==
    LET n == Len(stream)
        rows == DataFrame([k \in 1..n |-> Shape(stream[k])])
        test == SetColumn([rows |-> rows, cols |-> NoCols], BaselineColumn, base)
        log(model, col) ==
            [k \in 1..n |-> [request |-> RerankRequest(rows[k], model),
                             status |-> "ok", results |-> <<[index |-> col[k]]>>]]
    IN
    /\ pc = "finetuned"
    /\ iterable_dataset = stream
    /\ num_examples = n
    /\ train_num = 0
    /\ valid_num = 0
    /\ test_num = n
    /\ d = [k \in 1..n |-> Shape(stream[k])]
    /\ df = rows
    /\ df_train = <<>>
    /\ df_valid = <<>>
    /\ df_test = test
    /\ files = create_jsonl_from_list(
                  create_jsonl_from_list(NoFiles, "casehold_train", <<>>),
                  "casehold_valid", <<>>)
    /\ pass = [active |-> TRUE, model |-> FtModel, column |-> FtColumn,
               sent |-> n, acc |-> ft]
    /\ calls = log(BaselineModel, base) \o log(FtModel, ft)
    /\ printed =
          <<[what |-> "Size of training set:", num |-> 0, den |-> 1],
            [what |-> "Size of validation set:", num |-> 0, den |-> 1],
            [what |-> "Size of test set:", num |-> n, den |-> 1],
            [what |-> "Baseline accuracy:"] @@ Accuracy(test, BaselineColumn)>>
    /\ error = "none"
    /\ preview = <<>>
    /\ lastCall = [file_name |-> "casehold_valid", frame |-> <<>>, existed |-> FALSE]

\* The predictions that are right on the rows in hits and wrong (index 1,
\* the label of no example of the stream) on the others.
RightOn(stream, hits) ==
    [k \in 1..Len(stream) |-> IF k \in hits THEN stream[k].label ELSE 1]

InitTen ==
    \E m \in {0, 6, TenExamples}, hits \in SUBSET (1..TenExamples) :
        AtEndOfSecondApply(SampleStream(TenExamples, 0),
                           RightOn(SampleStream(TenExamples, 0), 1..m),
                           RightOn(SampleStream(TenExamples, 0), hits))

SpecTen == (Init \/ InitTen) /\ [][Next]_vars

\* The accuracy lines printed so far.
AccuracyLines ==
    {i \in 1..Len(printed) :
        printed[i].what \in {"Baseline accuracy:", "Fine-tune accuracy:"}}

\* The column an accuracy line is about.
ColumnOf(line) ==
    IF line.what = "Baseline accuracy:" THEN BaselineColumn ELSE FtColumn

RECURSIVE Matches(_, _, _)
\* The number of the first n test rows whose prediction in col is the label.
Matches(rows, col, n) ==
    IF n = 0 THEN 0
    ELSE Matches(rows, col, n - 1) + (IF col[n] = rows[n].label THEN 1 ELSE 0)

\* C5: every printed accuracy is (rows of the test slice whose prediction
\* equals the label) / (rows of the test slice), a value in [0,1]; it is 1
\* when every prediction equals its label and 0 when none does; and with
\* ten test rows 6 matches print 6/10 = 0.6 and 8 matches 8/10 = 0.8.
C5_Accuracy ==
    \A i \in AccuracyLines :
       LET col == df_test.cols[ColumnOf(printed[i])]
           n == Len(df_test.rows)
           m == Matches(df_test.rows, col, n)
       IN /\ n > 0
          /\ printed[i].den = n
          /\ printed[i].num = m
          /\ 0 <= printed[i].num /\ printed[i].num <= printed[i].den
          /\ (\A k \in 1..n : col[k] = df_test.rows[k].label)
                => printed[i].num = printed[i].den
          /\ (\A k \in 1..n : col[k] # df_test.rows[k].label)
                => printed[i].num = 0
          /\ (n = 10 /\ m = 6) => 10 * printed[i].num = 6 * printed[i].den
          /\ (n = 10 /\ m = 8) => 10 * printed[i].num = 8 * printed[i].den

\* The sample run's figures: ten test rows, a baseline accuracy of 6/10 and
\* a fine-tuned accuracy of 8/10 printed.
C5_Witness ==
    /\ pc = "done"
    /\ Len(df_test.rows) = 10
    /\ \E i, j \in AccuracyLines :
          /\ printed[i].what = "Baseline accuracy:"
          /\ printed[i].num = 6 /\ printed[i].den = 10
          /\ printed[j].what = "Fine-tune accuracy:"
          /\ printed[j].num = 8 /\ printed[j].den = 10

----------------------------------------------------------------------------
(* The evaluator *)

\* The number of test rows, and the test row the k-th request of the log
\* is about when each pass asks for every row once, in order.
NTest == Len(df_test.rows)
RowOfCall(k) == df_test.rows[((k - 1) % NTest) + 1]

\* The model identifier of the pass the k-th request belongs to.
ModelOfCall(k) == IF k <= NTest THEN BaselineModel ELSE FtModel

\* The raw example a row was shaped from.
RawOf(row) == iterable_dataset[row.idx + 1]

\* The answers (top indices) of the requests lo..hi of the log.
Answers(lo, hi) == [k \in 1..(hi - lo + 1) |-> calls[lo + k - 1].results[1].index]

\* C6: every ranking request carries the model identifier of its pass, the
\* query of its test row, the five original candidates holding_0..holding_4
\* in that order and top_n = 1; the prediction kept for the row is the index
\* of the first result of the response; docs[label] is the row's single
\* relevant passage, so the prediction equals the label exactly when the
\* top result designates the position of the relevant passage.
C6_RequestAndPrediction ==
    /\ \A k \in 1..Len(calls) :
          LET row == RowOfCall(k)
              raw == RawOf(row)
          IN /\ calls[k].request =
                   [model |-> ModelOfCall(k), query |-> raw.citing_prompt,
                    documents |-> [i \in 1..5 |-> Get(raw, all_labels[i])],
                    top_n |-> 1]
             /\ Len(row.relevant_passages) = 1
             /\ calls[k].request.documents[row.label + 1] = row.relevant_passages[1]
    /\ pass.active =>
          LET base == IF pass.model = BaselineModel THEN 0 ELSE NTest IN
          /\ \A i \in 1..Len(pass.acc) :
                /\ calls[base + i].status = "ok"
                /\ pass.acc[i] = calls[base + i].results[1].index
                /\ (pass.acc[i] = df_test.rows[i].label) <=>
                      (calls[base + i].results[1].index = df_test.rows[i].label)
    /\ BaselineColumn \in DOMAIN df_test.cols =>
          df_test.cols[BaselineColumn] = Answers(1, NTest)
    /\ FtColumn \in DOMAIN df_test.cols =>
          df_test.cols[FtColumn] = Answers(NTest + 1, 2 * NTest)

\* Both passes have run on a row with two equal candidates: one answer
\* named the relevant passage's position and was stored as a match, the
\* other named the equal candidate and was stored as a miss.
C6_Witness ==
    /\ pc = "done"
    /\ \E i \in 1..NTest :
          LET row == df_test.rows[i] IN
          /\ row.label = 4
          /\ row.docs[1] = row.docs[5]
          /\ df_test.cols[BaselineColumn][i] = 4
          /\ df_test.cols[FtColumn][i] = 0

\* C7: the evaluator runs exactly once with the baseline identifier and
\* exactly once with the fine-tuned one, both over the rows of the test
\* slice; from the end of the baseline pass on, through and after the
\* fine-tuned pass, the test rows are those the split produced, the stored
\* baseline predictions are the answers of the baseline pass, and the
\* baseline accuracy recomputed from them is the one that was printed.
C7_TwoPasses ==
    /\ pc \in {"serialize_train", "serialize_valid", "preview", "finetuned", "done"} =>
          /\ NTest > 0
          /\ df_test.rows = SubSeq(df, Min(train_num + valid_num, Len(df)) + 1, Len(df))
          /\ BaselineColumn \in DOMAIN df_test.cols
          /\ df_test.cols[BaselineColumn] = Answers(1, NTest)
          /\ \E i \in AccuracyLines :
                /\ printed[i].what = "Baseline accuracy:"
                /\ printed[i].num =
                      Matches(df_test.rows, df_test.cols[BaselineColumn], NTest)
                /\ printed[i].den = NTest
                /\ \A j \in AccuracyLines :
                      printed[j].what = "Baseline accuracy:" => j = i
    /\ pc = "done" =>
          /\ Len(calls) = 2 * NTest
          /\ \A k \in 1..NTest :
                /\ calls[k].request.model = BaselineModel
                /\ calls[NTest + k].request.model = FtModel
                /\ calls[k].request.query = df_test.rows[k].query
                /\ calls[k].request.documents = df_test.rows[k].docs
                /\ calls[NTest + k].request.query = df_test.rows[k].query
                /\ calls[NTest + k].request.documents = df_test.rows[k].docs
          /\ DOMAIN df_test.cols = {BaselineColumn, FtColumn}
          /\ df_test.cols[FtColumn] = Answers(NTest + 1, 2 * NTest)
          /\ Cardinality(AccuracyLines) = 2
          /\ \E j \in AccuracyLines : printed[j].what = "Fine-tune accuracy:"

\* Both passes are over, with different predictions on two test rows.
C7_Witness ==
    /\ pc = "done"
    /\ NTest = 2
    /\ df_test.cols[BaselineColumn] # df_test.cols[FtColumn]
    /\ \E i, j \in AccuracyLines : printed[i].num # printed[j].num

\* C9: at most one ranking request is outstanding, and only the last one of
\* the log can be; the requests of a pass are those of the test rows in
\* order, one per row: the k-th request of the log is about row k of its
\* pass, a pass that has ended has asked for each row exactly once, and no
\* request is sent before the answer to the one before has been received.
C9_Sequential ==
    /\ Cardinality(Outstanding) <= 1
    /\ \A k \in 1..Len(calls) :
          /\ k < Len(calls) => calls[k].status = "ok"
          /\ calls[k].request = RerankRequest(RowOfCall(k), ModelOfCall(k))
    /\ Len(calls) <= 2 * NTest
    /\ pass.active =>
          /\ pass.sent - Len(pass.acc) \in {0, 1}
          /\ pass.sent - Len(pass.acc) = Cardinality(Outstanding)
          /\ Len(calls) = (IF pass.model = BaselineModel THEN 0 ELSE NTest) + pass.sent
    /\ (~pass.active /\ BaselineColumn \in DOMAIN df_test.cols
           /\ FtColumn \notin DOMAIN df_test.cols /\ error = "none")
          => Len(calls) = NTest
    /\ FtColumn \in DOMAIN df_test.cols => Len(calls) = 2 * NTest

\* The request for the second test row is outstanding, the first answered.
C9_Witness ==
    /\ pass.active
    /\ NTest = 2
    /\ Len(calls) = 2
    /\ calls[1].status = "ok"
    /\ calls[2].status = "pending"

\* The ranking call of the notebook's stop, if a ranking call stopped it.
RankingFailed == error \in {"ApiError", "IndexError"}

\* C10: when a ranking call fails, the notebook stops there with the error:
\* the failed request is the last of the log, the column of the pass under
\* way is not added to the test table (the predictions already obtained in
\* that pass are dropped), and no accuracy is printed for that pass.
C10_AbortOnFailure ==
    RankingFailed =>
       LET last == calls[Len(calls)]
           inBaseline == last.request.model = BaselineModel
       IN /\ pc = "stopped"
          /\ ~pass.active
          /\ last.status = "failed"
          /\ \A k \in 1..(Len(calls) - 1) : calls[k].status = "ok"
          /\ Len(calls) <= (IF inBaseline THEN NTest ELSE 2 * NTest)
          /\ (IF inBaseline THEN BaselineColumn ELSE FtColumn) \notin DOMAIN df_test.cols
          /\ \A i \in AccuracyLines :
                printed[i].what # (IF inBaseline THEN "Baseline accuracy:"
                                   ELSE "Fine-tune accuracy:")
          /\ inBaseline => DOMAIN df_test.cols = {} /\ AccuracyLines = {}

\* The call for the second test row of the baseline pass failed after the
\* first row's prediction had been obtained; nothing was stored.
C10_Witness ==
    /\ RankingFailed
    /\ NTest = 2
    /\ Len(calls) = 2
    /\ calls[1].status = "ok"
    /\ calls[2].request.model = BaselineModel
    /\ DOMAIN df_test.cols = {}

----------------------------------------------------------------------------
(* Malformed raw examples *)

\* A raw example that lacks one of holding_0..holding_4 or whose label is
\* outside 0..4.
Malformed(example) == ~WellFormed(example)

\* Whether a list of texts holds the value of a missing field.
HasNone(l) == \E j \in 1..Len(l) : l[j] = None

\* C11: a raw example that lacks one of the five candidate fields, or whose
\* label is outside 0..4, is fatal: shaping it raises and the notebook
\* stops there; it is never skipped (the records appended are those of the
\* examples before it, and no table is built) and never appended with a
\* missing candidate in docs or hard_negatives.
C11_MalformedIsFatal ==
    /\ \A k \in 1..Len(Taken) :
          Malformed(Taken[k]) =>
             /\ Len(d) < k
             /\ Len(d) = k - 1 => (pc = "shape" \/ (pc = "stopped" /\ error # "none"))
    /\ \A k \in 1..Len(d) : ~HasNone(d[k].docs) /\ ~HasNone(d[k].hard_negatives)

----------------------------------------------------------------------------
(* The split as a partition *)

\* The larger of two integers.
Max(a, b) == IF a > b THEN a ELSE b

----------------------------------------------------------------------------
(* Training, validation and test records *)

\* Both serializer calls of the notebook have run.
BothSerialized == lastCall.file_name = "casehold_valid"

\* Every line of a file is the record of some row of the frame.
HoldsOnlyRecordsOf(content, frame) ==
    LET ls == ReadJsonl(content) IN
    \A k \in 1..Len(ls) :
       /\ ls[k].ok
       /\ \E r \in 1..Len(frame) : ls[k].val = RecordOf(frame[r])

\* C13: after any run, no record submitted to the ranking service in an
\* evaluation pass is a record of the training or validation slice, the
\* training file holds only records of the training slice and the
\* validation file only records of the validation slice; and the
\* prediction columns added to the test slice change neither the full
\* table nor the training and validation slices.
C13_NoLeakage ==
    /\ \A k \in 1..Len(calls) :
          RowOfCall(k).idx \notin Idx(df_train) \cup Idx(df_valid)
    /\ BothSerialized =>
          /\ HoldsOnlyRecordsOf(files[Path("casehold_train")], df_train)
          /\ HoldsOnlyRecordsOf(files[Path("casehold_valid")], df_valid)
    /\ SplitDone =>
          /\ df = DataFrame(d)
          /\ df_train = SubSeq(df, 1, Min(train_num, Len(df)))
          /\ df_valid = SubSeq(df, Min(train_num, Len(df)) + 1,
                               Min(train_num + valid_num, Len(df)))

----------------------------------------------------------------------------
(* The empty test slice *)

\* The split has left no test row: train_num + valid_num >= N.
EmptyTestSlice == SplitDone /\ train_num + valid_num >= Len(df)

====
